---- MODULE Spec2Model ----
(***************************************************************************)
(* RightTyper: the call-event monitoring controller (righttyper_tool.py)   *)
(* and the import provenance resolver / import statement synthesizer       *)
(* (get_import_details.py), as state machines.                             *)
(***************************************************************************)
EXTENDS Integers, Sequences, FiniteSets, TLC

(***************************************************************************)
(* Bounds of the model.                                                    *)
(***************************************************************************)
\* Largest tool identifier the host registry holds (identifiers 0..MaxToolId).
MaxToolId == 5
\* Largest value get_sampling_interval() returns, in abstract time units.
MaxInterval == 1
\* Saturation point of the count of expirations since the timer was armed.
MaxFired == 2
\* Most name bindings the scopes of the call chain hold together.
MaxBindings == 2
\* Longest module name handed to generate_import_nodes, in characters.
MaxNameLen == 3

(***************************************************************************)
(* sys.monitoring.events, as the bit values the module ORs together.       *)
(***************************************************************************)
PY_START == 1
PY_RETURN == 4
PY_YIELD == 8
CALL == 16
NO_EVENTS == 0

\* _EVENTS = frozenset({PY_START, PY_RETURN, PY_YIELD, CALL})
EVENTS == {PY_START, PY_RETURN, PY_YIELD, CALL}

\* Python's | on non-negative integers.
RECURSIVE BitOr(_, _)
BitOr(a, b) ==
    IF a = 0 THEN b
    ELSE IF b = 0 THEN a
    ELSE (IF a % 2 = 1 \/ b % 2 = 1 THEN 1 ELSE 0) + 2 * BitOr(a \div 2, b \div 2)

\* event_set = 0; for event in _EVENTS: event_set |= event
RECURSIVE OrAll(_)
OrAll(S) ==
    IF S = {} THEN 0
    ELSE LET e == CHOOSE x \in S : TRUE IN BitOr(e, OrAll(S \ {e}))

ToolIds == 0..MaxToolId

\* The callables a callback slot or the SIGALRM slot can hold.
NoCallback == "None"
NoCallbacks == [e \in EVENTS |-> NoCallback]

\* Event sets other tools may have enabled on the identifiers they hold.
ForeignMasks == {NO_EVENTS, BitOr(PY_START, CALL)}

VARIABLES
    TOOL_ID,        \* righttyper_tool's module global TOOL_ID
    registry,       \* host: tool id -> "free" | "other" | "self"
    strict,         \* host: does set_events refuse an identifier not in use?
    events,         \* host: tool id -> enabled event mask
    callbacks,      \* host: tool id -> (event -> callable)
    sigHandler,     \* host: the SIGALRM handler
    itValue,        \* host: ITIMER_REAL time to next expiration (0 = disarmed)
    itInterval,     \* host: ITIMER_REAL reload value
    tripped,        \* host: SIGALRM arrived, Python-level handler not yet run
    pc,             \* position of the single thread of control
    last,           \* the operation that returned last
    raised,         \* did the operation that returned last raise?
    startId,        \* TOOL_ID when setup_tool_id was entered
    resetDone,      \* reset_monitoring returned, setup_timer not entered since
    firedSinceArm,  \* expirations since the last setitimer call (saturating)
    resets,         \* consecutive reset_monitoring calls returned (saturating)
    frames,         \* resolver: the call chain, immediate caller first
    obj,            \* resolver: the value get_import_details was called with
    details,        \* resolver: the tuple get_import_details returned
    genInput,       \* synthesizer: the details generate_import_nodes was given
    import_nodes,   \* synthesizer: the list generate_import_nodes returned
    warnings,       \* synthesizer: the warnings it logged
    genOutcome      \* synthesizer: "none" | "returned" | "raised"

ctlVars == <<TOOL_ID, registry, strict, events, callbacks, sigHandler, itValue,
             itInterval, tripped, pc, last, raised, startId, resetDone,
             firedSinceArm, resets>>

resVars == <<frames, obj, details>>
genVars == <<genInput, import_nodes, warnings, genOutcome>>

vars == <<ctlVars, resVars, genVars>>

hostMon == <<registry, strict, events, callbacks>>
hostSig == <<sigHandler, itValue, itInterval, tripped, firedSinceArm>>

InUse(id) == id \in ToolIds /\ registry[id] # "free"

Min(a, b) == IF a < b THEN a ELSE b

(***************************************************************************)
(* Initial state: the module has been imported, nothing has been called.   *)
(* TOOL_ID is the preferred identifier of righttyper_utils; other tools     *)
(* hold the first n identifiers from it on, each with some event set.      *)
(***************************************************************************)
Imported(preferred, n, hostStrict, m) ==
    /\ TOOL_ID = preferred
    /\ registry = [i \in ToolIds |->
                       IF i >= preferred /\ i < preferred + n THEN "other" ELSE "free"]
    /\ strict = hostStrict
    /\ events = [i \in ToolIds |-> IF registry[i] = "other" THEN m ELSE NO_EVENTS]
    /\ callbacks = [i \in ToolIds |-> NoCallbacks]
    /\ sigHandler = "SIG_DFL"
    /\ itValue = 0
    /\ itInterval = 0
    /\ tripped = FALSE
    /\ pc = "idle"
    /\ last = "import"
    /\ raised = FALSE
    /\ startId = TOOL_ID
    /\ resetDone = FALSE
    /\ firedSinceArm = 0
    /\ resets = 0

InitCtl ==
    \E preferred \in ToolIds, hostStrict \in BOOLEAN, m \in ForeignMasks :
        \E n \in 0..(MaxToolId + 1 - preferred) :
            Imported(preferred, n, hostStrict, m)

\* The controller as the other components leave it: imported, never called.
CtlUnused == Imported(0, 0, TRUE, NO_EVENTS)

(***************************************************************************)
(* register_monitoring_callbacks                                           *)
(***************************************************************************)
\* The loop with = in place of |=: the set is the event visited last.
RegisteredEventSetLastOnly == CHOOSE e \in EVENTS : TRUE

\* The event set handed to sys.monitoring.set_events.
RegisteredEventSet == OrAll(EVENTS)

\* The four register_callback calls.
RegisteredCallbacks ==
    [e \in EVENTS |->
        IF e = PY_START THEN "lambda_enter_function"
        ELSE IF e = CALL THEN "call_handler"
        ELSE IF e = PY_RETURN THEN "exit_function"
        ELSE "yield_function"]

register_monitoring_callbacks ==
    /\ pc = "idle"
    /\ IF strict /\ ~InUse(TOOL_ID)
       THEN \* set_events raises ValueError, nothing was changed yet
            /\ raised' = TRUE
            /\ UNCHANGED <<events, callbacks>>
       ELSE /\ events' = [events EXCEPT ![TOOL_ID] = RegisteredEventSet]
            /\ callbacks' = [callbacks EXCEPT ![TOOL_ID] = RegisteredCallbacks]
            /\ raised' = FALSE
    /\ last' = "register_monitoring_callbacks"
    /\ resets' = 0
    /\ UNCHANGED <<TOOL_ID, registry, strict, hostSig, pc, startId, resetDone>>
    /\ UNCHANGED <<resVars, genVars>>

(***************************************************************************)
(* reset_monitoring                                                        *)
(***************************************************************************)
\* for id in range(3, 5)
ResetRangeStart == 3
ResetRangeStop == 5
ResetRange == ResetRangeStart..(ResetRangeStop - 1)

\* for event in _EVENTS: register_callback(TOOL_ID, event, None)
UnregisterAll(cb) == [cb EXCEPT ![TOOL_ID] = NoCallbacks]

\* The second loop over every identifier instead of range(3, 5).
ClearAllSlots(ev) ==
    [i \in ToolIds |-> IF InUse(i) \/ ~strict THEN NO_EVENTS ELSE ev[i]]

\* try: set_events(id, NO_EVENTS) except ValueError: pass
\* The call fails for an identifier outside the registry, and, on a strict
\* host, for one not in use; the failure is swallowed.
ClearReserved(ev) ==
    [i \in ToolIds |->
        IF i \in ResetRange /\ (InUse(i) \/ ~strict) THEN NO_EVENTS ELSE ev[i]]

\* The second loop without its try/except.
ResetRaisesUncaught == TRUE

\* except ValueError: pass. Does a set_events failure escape reset_monitoring?
ResetRaises == FALSE

\* Lines 57-66: the two loops.
reset_monitoring ==
    /\ pc = "idle"
    /\ callbacks' = UnregisterAll(callbacks)
    /\ IF ResetRaises /\ \E i \in ResetRange : strict /\ ~InUse(i)
       THEN /\ raised' = TRUE
            /\ pc' = "idle"
            /\ last' = "reset_monitoring"
            /\ UNCHANGED events
       ELSE /\ events' = ClearReserved(events)
            /\ raised' = FALSE
            /\ pc' = "reset_signal"
            /\ UNCHANGED last
    /\ UNCHANGED <<TOOL_ID, registry, strict, hostSig, startId, resetDone, resets>>
    /\ UNCHANGED <<resVars, genVars>>

\* reset_monitoring without line 67: the handler stays.
ResetHandlerKept == sigHandler

\* The handler reset_monitoring installs for SIGALRM.
ResetHandler == "SIG_IGN"

\* Line 67: signal.signal(signal.SIGALRM, signal.SIG_IGN)
reset_monitoring_signal ==
    /\ pc = "reset_signal"
    /\ sigHandler' = ResetHandler
    /\ pc' = "reset_setitimer"
    /\ UNCHANGED <<TOOL_ID, hostMon, itValue, itInterval, tripped,
                   firedSinceArm, last, raised, startId, resetDone, resets>>
    /\ UNCHANGED <<resVars, genVars>>

\* Line 68: signal.setitimer(signal.ITIMER_REAL, 0)
reset_monitoring_setitimer ==
    /\ pc = "reset_setitimer"
    /\ itValue' = 0
    /\ itInterval' = 0
    /\ firedSinceArm' = 0
    /\ pc' = "idle"
    /\ last' = "reset_monitoring"
    /\ resetDone' = TRUE
    /\ resets' = Min(resets + 1, 2)
    /\ UNCHANGED <<TOOL_ID, hostMon, sigHandler, tripped, raised, startId>>
    /\ UNCHANGED <<resVars, genVars>>

(***************************************************************************)
(* setup_timer                                                             *)
(***************************************************************************)
\* get_sampling_interval() of righttyper_utils: a positive interval.
SamplingIntervals == 1..MaxInterval

\* Line 74: signal.signal(signal.SIGALRM, handle_clear_seen_funcs)
setup_timer ==
    /\ pc = "idle"
    /\ sigHandler' = "handle_clear_seen_funcs"
    /\ resetDone' = FALSE
    /\ pc' = "setup_setitimer"
    /\ UNCHANGED <<TOOL_ID, hostMon, itValue, itInterval, tripped,
                   firedSinceArm, last, raised, startId, resets>>
    /\ UNCHANGED <<resVars, genVars>>

\* setitimer(ITIMER_REAL, seconds, seconds): a timer that repeats.
TimerReloadRepeating(seconds) == seconds

\* The interval argument of setitimer, which the call leaves at its default.
TimerReload(seconds) == 0

\* Lines 75-78: signal.setitimer(signal.ITIMER_REAL, get_sampling_interval())
setup_timer_setitimer ==
    /\ pc = "setup_setitimer"
    /\ \E seconds \in SamplingIntervals :
           /\ itValue' = seconds
           /\ itInterval' = TimerReload(seconds)
    /\ firedSinceArm' = 0
    /\ pc' = "idle"
    /\ last' = "setup_timer"
    /\ raised' = FALSE
    /\ resets' = 0
    /\ UNCHANGED <<TOOL_ID, hostMon, sigHandler, tripped, startId, resetDone>>
    /\ UNCHANGED <<resVars, genVars>>

(***************************************************************************)
(* setup_tool_id                                                           *)
(***************************************************************************)
\* TOOL_ID += 2
NextCandidateSkipping(id) == id + 2

\* except Exception: TOOL_ID += 1
NextCandidate(id) == id + 1

\* The call: global TOOL_ID, entering the while True loop. The session
\* identity is acquired once and held for the rest of the process.
setup_tool_id ==
    /\ pc = "idle"
    /\ \A i \in ToolIds : registry[i] # "self"
    /\ pc' = "setup_tool_id"
    /\ startId' = TOOL_ID
    /\ UNCHANGED <<TOOL_ID, hostMon, hostSig, last, raised, resetDone, resets>>
    /\ UNCHANGED <<resVars, genVars>>

\* One pass of the loop: use_tool_id(TOOL_ID, TOOL_NAME) succeeds on a free
\* identifier of the registry and raises otherwise. A candidate past the end
\* of the registry is refused forever, and the loop never leaves.
setup_tool_id_try ==
    /\ pc = "setup_tool_id"
    /\ IF TOOL_ID \in ToolIds /\ registry[TOOL_ID] = "free"
       THEN /\ registry' = [registry EXCEPT ![TOOL_ID] = "self"]
            /\ pc' = "idle"
            /\ last' = "setup_tool_id"
            /\ raised' = FALSE
            /\ resets' = 0
            /\ UNCHANGED TOOL_ID
       ELSE /\ TOOL_ID <= MaxToolId
            /\ TOOL_ID' = NextCandidate(TOOL_ID)
            /\ UNCHANGED <<registry, pc, last, raised, resets>>
    /\ UNCHANGED <<strict, events, callbacks, hostSig, startId, resetDone>>
    /\ UNCHANGED <<resVars, genVars>>

(***************************************************************************)
(* The host's timer: expiration of ITIMER_REAL and delivery of SIGALRM.    *)
(***************************************************************************)
\* The interval elapses: the timer reloads from its interval, and the signal
\* is recorded unless it is ignored.
TimerExpire ==
    /\ itValue > 0
    /\ itValue' = itInterval
    /\ tripped' = (tripped \/ sigHandler = "handle_clear_seen_funcs")
    /\ firedSinceArm' = Min(firedSinceArm + 1, MaxFired)
    /\ UNCHANGED <<TOOL_ID, hostMon, sigHandler, itInterval, pc, last,
                   raised, startId, resetDone, resets>>
    /\ UNCHANGED <<resVars, genVars>>

\* Between two bytecodes the interpreter runs the handler that is installed
\* now for a recorded signal; SIG_IGN and SIG_DFL run nothing.
DeliverSignal ==
    /\ tripped
    /\ tripped' = FALSE
    /\ UNCHANGED <<TOOL_ID, hostMon, sigHandler, itValue, itInterval,
                   firedSinceArm, pc, last, raised, startId, resetDone, resets>>
    /\ UNCHANGED <<resVars, genVars>>


(***************************************************************************)
(* get_import_details: the values, the names and the call chain.           *)
(***************************************************************************)
\* The runtime values: two arrays that compare equal and are distinct
\* objects, the module they come from, and a built-in class.
Values == {"arr_a", "arr_b", "numpy_mod", "int_cls"}

\* The names the scopes bind: the canonical name of the arrays' class, the
\* canonical name of their module, and one more.
Names == {"ndarray", "numpy", "np"}

\* hasattr(v, "__name__") and v.__name__
HasName(v) == v \in {"numpy_mod", "int_cls"}
NameAttr(v) == IF v = "numpy_mod" THEN "numpy" ELSE "int"
\* type(v).__name__
TypeName(v) ==
    IF v \in {"arr_a", "arr_b"} THEN "ndarray"
    ELSE IF v = "numpy_mod" THEN "module" ELSE "type"
\* hasattr(v, "__module__") and v.__module__: an instance finds its class's
\* __module__, a class its own, a module object none.
HasModule(v) == v # "numpy_mod"
ModuleAttr(v) == IF v = "int_cls" THEN "builtins" ELSE "numpy"
\* v.__class__.__module__
TypeModule(v) == IF v \in {"arr_a", "arr_b"} THEN "numpy" ELSE "builtins"
\* isinstance(v, ModuleType)
IsModuleType(v) == v = "numpy_mod"
\* sys.modules.get(name)
SysModules(name) == IF name = "numpy" THEN "numpy_mod" ELSE "None"
\* a is b: the two arrays compare equal with == and are not the same object.
Is(a, b) == a = b

EmptyScope == [n \in {} |-> "None"]
EmptyFrame ==
    [co_varnames |-> <<>>, co_argcount |-> 0, co_kwonlyargcount |-> 0,
     f_globals |-> EmptyScope, f_locals |-> EmptyScope]

\* scope.items()
Items(scope) == {<<n, scope[n]>> : n \in DOMAIN scope}

\* Line 40
obj_name(v) == IF HasName(v) THEN NameAttr(v) ELSE TypeName(v)
\* Lines 41-45
module_name(v) == IF HasModule(v) THEN ModuleAttr(v) ELSE TypeModule(v)

\* Lines 64-66: set(frame.f_code.co_varnames[: frame.f_code.co_argcount])
local_scope_exclusions(frame) ==
    {frame.co_varnames[i] :
        i \in 1..Min(frame.co_argcount, Len(frame.co_varnames))}

\* Lines 73-94: one scope of one frame, added to the aliases found so far.
ScanScope(scope, exclusions, v, found) ==
    LET module_obj == SysModules(module_name(v))
        isModule(item) == IsModuleType(item[2]) /\ Is(item[2], module_obj)
    IN [module_aliases |->
            found.module_aliases \cup
            {item[1] : item \in
                {it \in Items(scope) :
                    /\ isModule(it)
                    /\ it[1] # module_name(v)
                    /\ it[1] \notin found.module_aliases
                    /\ it[1] \notin exclusions}},
        obj_aliases |->
            found.obj_aliases \cup
            {item[1] : item \in
                {it \in Items(scope) :
                    /\ ~isModule(it)
                    /\ Is(it[2], v)
                    /\ it[1] # obj_name(v)
                    /\ it[1] \notin found.obj_aliases
                    /\ it[1] \notin exclusions}}]

\* Lines 61-96: the frames from the immediate caller outward, for each its
\* globals and then its locals.
RECURSIVE WalkFrames(_, _, _, _)
WalkFrames(chain, i, v, found) ==
    IF i > Len(chain) THEN found
    ELSE LET frame == chain[i]
             excl == local_scope_exclusions(frame)
             afterGlobals == ScanScope(frame.f_globals, excl, v, found)
             afterLocals == ScanScope(frame.f_locals, excl, v, afterGlobals)
         IN WalkFrames(chain, i + 1, v, afterLocals)

NoAliases == [module_aliases |-> {}, obj_aliases |-> {}]

\* get_import_details without its built-in check.
get_import_details_unchecked(v, chain) ==
    LET found == WalkFrames(chain, 1, v, NoAliases)
    IN [obj_name |-> obj_name(v), obj_aliases |-> found.obj_aliases,
        module_name |-> module_name(v), module_aliases |-> found.module_aliases]

\* Lines 40-104
get_import_details(v, chain) ==
    IF module_name(v) = "builtins"
    THEN [obj_name |-> obj_name(v), obj_aliases |-> {},
          module_name |-> "builtins", module_aliases |-> {}]
    ELSE LET found == WalkFrames(chain, 1, v, NoAliases)
         IN [obj_name |-> obj_name(v), obj_aliases |-> found.obj_aliases,
             module_name |-> module_name(v),
             module_aliases |-> found.module_aliases]

\* The bindings the call chain holds.
RECURSIVE BindingCount(_, _)
BindingCount(chain, i) ==
    IF i > Len(chain) THEN 0
    ELSE Cardinality(DOMAIN chain[i].f_globals)
         + Cardinality(DOMAIN chain[i].f_locals)
         + BindingCount(chain, i + 1)

InsertAt(seq, i, x) == SubSeq(seq, 1, i - 1) \o <<x>> \o SubSeq(seq, i, Len(seq))
VarNames(frame) == {frame.co_varnames[i] : i \in 1..Len(frame.co_varnames)}

Building == obj = "none" /\ BindingCount(frames, 1) < MaxBindings

\* The calling program binds a global name in a frame of the chain.
BindGlobal(f, n, v) ==
    /\ Building
    /\ n \notin DOMAIN frames[f].f_globals
    /\ frames' = [frames EXCEPT ![f].f_globals = (n :> v) @@ @]
    /\ UNCHANGED <<obj, details>>

\* A frame of the chain was called with value v for positional parameter n.
BindParameter(f, n, v) ==
    /\ Building
    /\ n \notin VarNames(frames[f])
    /\ frames' = [frames EXCEPT
           ![f].co_varnames = InsertAt(@, frames[f].co_argcount + 1, n),
           ![f].co_argcount = @ + 1,
           ![f].f_locals = (n :> v) @@ @]
    /\ UNCHANGED <<obj, details>>

\* A frame of the chain was called with value v for keyword-only parameter n.
BindKeywordOnly(f, n, v) ==
    /\ Building
    /\ n \notin VarNames(frames[f])
    /\ frames' = [frames EXCEPT
           ![f].co_varnames =
               InsertAt(@, frames[f].co_argcount + frames[f].co_kwonlyargcount + 1, n),
           ![f].co_kwonlyargcount = @ + 1,
           ![f].f_locals = (n :> v) @@ @]
    /\ UNCHANGED <<obj, details>>

\* A frame of the chain assigns v to its local variable n.
BindLocal(f, n, v) ==
    /\ Building
    /\ n \notin VarNames(frames[f])
    /\ frames' = [frames EXCEPT
           ![f].co_varnames = Append(@, n),
           ![f].f_locals = (n :> v) @@ @]
    /\ UNCHANGED <<obj, details>>

\* The immediate caller calls get_import_details(v).
Resolve(v) ==
    /\ obj = "none"
    /\ obj' = v
    /\ details' = get_import_details(v, frames)
    /\ UNCHANGED frames

NoDetails ==
    [obj_name |-> "", obj_aliases |-> {}, module_name |-> "", module_aliases |-> {}]

\* Nothing resolved yet: the caller's frame and one enclosing frame, empty.
InitRes ==
    /\ frames = <<EmptyFrame, EmptyFrame>>
    /\ obj = "none"
    /\ details = NoDetails


(***************************************************************************)
(* generate_import_nodes: strings are sequences of characters.             *)
(***************************************************************************)
Alphabet == {"a", "."}
Strings(n) == UNION {[1..k -> Alphabet] : k \in 0..n}

\* name.split(".")
RECURSIVE Split(_)
Split(name) ==
    IF name = <<>> THEN << <<>> >>
    ELSE LET rest == Split(Tail(name))
         IN IF Head(name) = "." THEN << <<>> >> \o rest
            ELSE << <<Head(name)>> \o Head(rest) >> \o Tail(rest)

\* cst.Name(value) validates that the identifier is not empty.
NameValid(value) == Len(value) > 0
Name(value) == [type |-> "Name", value |-> value]

\* Lines 212-221: the left-associative chain of attribute nodes.
RECURSIVE FoldAttributes(_, _, _)
FoldAttributes(base, parts, i) ==
    IF i > Len(parts) THEN base
    ELSE FoldAttributes(
             [type |-> "Attribute", value |-> base, attr |-> Name(parts[i])],
             parts, i + 1)

create_dotted_name(name) ==
    LET parts == Split(name)
    IN IF Len(parts) = 1 THEN Name(parts[1])
       ELSE FoldAttributes(Name(parts[1]), parts, 2)

\* create_dotted_name raises CSTValidationError when a part is empty.
DottedNameValid(name) ==
    LET parts == Split(name) IN \A i \in 1..Len(parts) : NameValid(parts[i])

EmptyLine == [type |-> "EmptyLine"]

\* cst.ImportFrom(module=..., names=[cst.ImportAlias(name=..., asname=...)]);
\* asname is <<>> for no alias, <<alias>> for one.
ImportFrom(module, name, asname) ==
    [type |-> "ImportFrom", module |-> create_dotted_name(module),
     name |-> Name(name), asname |-> asname]
ImportFromValid(module, name, asname) ==
    /\ DottedNameValid(module)
    /\ NameValid(name)
    /\ \A i \in 1..Len(asname) : NameValid(asname[i])

\* cst.Import(names=[cst.ImportAlias(name=..., asname=...)])
Import(module, asname) ==
    [type |-> "Import", module |-> create_dotted_name(module), asname |-> asname]
ImportValid(module, asname) ==
    /\ DottedNameValid(module)
    /\ \A i \in 1..Len(asname) : NameValid(asname[i])

\* The orders in which a for loop can visit a set.
Orders(S) ==
    {seq \in [1..Cardinality(S) -> S] :
        \A i, j \in 1..Cardinality(S) : seq[i] = seq[j] => i = j}

\* The state of the function body: the list, the warnings, and whether an
\* exception is propagating.
GenStart == [nodes |-> <<>>, warnings |-> <<>>, raised |-> FALSE]

\* Lines 224-251: a guarded statement; a validation failure is logged.
TryImportFrom(st, module, name, asname) ==
    IF st.raised THEN st
    ELSE IF ImportFromValid(module, name, asname)
    THEN [st EXCEPT !.nodes = @ \o <<ImportFrom(module, name, asname), EmptyLine>>]
    ELSE [st EXCEPT !.warnings = Append(@, <<module, name, asname>>)]

\* Lines 254-271: an unguarded statement; a validation failure propagates.
AppendImport(st, module, asname) ==
    IF st.raised THEN st
    ELSE IF ImportValid(module, asname)
    THEN [st EXCEPT !.nodes = @ \o <<Import(module, asname), EmptyLine>>]
    ELSE [st EXCEPT !.raised = TRUE]

\* Lines 236-251: for alias in obj_aliases
RECURSIVE ObjAliasLoop(_, _, _, _)
ObjAliasLoop(st, d, order, i) ==
    IF i > Len(order) THEN st
    ELSE ObjAliasLoop(TryImportFrom(st, d.module_name, d.obj_name, <<order[i]>>),
                      d, order, i + 1)

\* Lines 260-271: for alias in module_aliases
RECURSIVE ModuleAliasLoop(_, _, _, _)
ModuleAliasLoop(st, d, order, i) ==
    IF i > Len(order) THEN st
    ELSE ModuleAliasLoop(AppendImport(st, d.module_name, <<order[i]>>),
                         d, order, i + 1)

\* Lines 203-273, for one visiting order of each alias set.
generate_import_nodes_body(d, objOrder, modOrder) ==
    LET s1 == TryImportFrom(GenStart, d.module_name, d.obj_name, <<>>)
        s2 == ObjAliasLoop(s1, d, objOrder, 1)
        s3 == AppendImport(s2, d.module_name, <<>>)
    IN ModuleAliasLoop(s3, d, modOrder, 1)

generate_import_nodes ==
    /\ genOutcome = "none"
    /\ \E objOrder \in Orders(genInput.obj_aliases),
          modOrder \in Orders(genInput.module_aliases) :
           LET st == generate_import_nodes_body(genInput, objOrder, modOrder)
           IN /\ import_nodes' = IF st.raised THEN <<>> ELSE st.nodes
              /\ warnings' = st.warnings
              /\ genOutcome' = IF st.raised THEN "raised" ELSE "returned"
    /\ UNCHANGED genInput

\* The caller starts over with other details.
NewDetails ==
    /\ genOutcome # "none"
    /\ genOutcome' = "none"
    /\ import_nodes' = <<>>
    /\ warnings' = <<>>
    /\ UNCHANGED genInput

AliasNames == Strings(1)

\* The details handed over: any object name and aliases of at most one
\* character, any module name of at most MaxNameLen.
GenInputs ==
    [obj_name : Strings(1), obj_aliases : SUBSET AliasNames,
     module_name : Strings(MaxNameLen), module_aliases : SUBSET AliasNames]

InitGen ==
    /\ genInput = [obj_name |-> <<>>, obj_aliases |-> {},
                   module_name |-> <<>>, module_aliases |-> {}]
    /\ import_nodes = <<>>
    /\ warnings = <<>>
    /\ genOutcome = "none"

Init == InitCtl /\ InitRes /\ InitGen

Next ==
    \/ register_monitoring_callbacks
    \/ reset_monitoring
    \/ reset_monitoring_signal
    \/ reset_monitoring_setitimer
    \/ setup_timer
    \/ setup_timer_setitimer
    \/ setup_tool_id
    \/ setup_tool_id_try
    \/ TimerExpire
    \/ DeliverSignal

Spec == Init /\ [][Next]_vars

\* Code that is running keeps running, an armed timer expires, and the
\* interpreter reaches the next point where it runs pending handlers. Nothing
\* obliges the session owner to call an operation.
FairSpec ==
    /\ Spec
    /\ WF_vars(setup_tool_id_try)
    /\ WF_vars(reset_monitoring_signal)
    /\ WF_vars(reset_monitoring_setitimer)
    /\ WF_vars(setup_timer_setitimer)
    /\ WF_vars(TimerExpire)
    /\ WF_vars(DeliverSignal)

(***************************************************************************)
(* The resolver on its own: the calling program builds a call chain, then  *)
(* calls get_import_details.                                               *)
(***************************************************************************)
FrameIndexes == 1..2

ResolveInit == CtlUnused /\ InitRes /\ InitGen

ResolveNext ==
    \/ \E f \in FrameIndexes, n \in Names, v \in Values :
           BindGlobal(f, n, v) /\ UNCHANGED <<ctlVars, genVars>>
    \/ \E f \in FrameIndexes, n \in Names, v \in Values :
           BindParameter(f, n, v) /\ UNCHANGED <<ctlVars, genVars>>
    \/ \E f \in FrameIndexes, n \in Names, v \in Values :
           BindKeywordOnly(f, n, v) /\ UNCHANGED <<ctlVars, genVars>>
    \/ \E f \in FrameIndexes, n \in Names, v \in Values :
           BindLocal(f, n, v) /\ UNCHANGED <<ctlVars, genVars>>
    \/ \E v \in Values : Resolve(v) /\ UNCHANGED <<ctlVars, genVars>>

ResolveSpec == ResolveInit /\ [][ResolveNext]_vars

(***************************************************************************)
(* The synthesizer on its own: generate_import_nodes on any details.       *)
(***************************************************************************)
GenInit ==
    /\ CtlUnused
    /\ InitRes
    /\ genInput \in GenInputs
    /\ import_nodes = <<>>
    /\ warnings = <<>>
    /\ genOutcome = "none"

GenNext ==
    \/ generate_import_nodes /\ UNCHANGED <<ctlVars, resVars>>
    \/ NewDetails /\ UNCHANGED <<ctlVars, resVars>>

GenSpec == GenInit /\ [][GenNext]_vars

(***************************************************************************)
(* Properties of the monitoring controller.                                *)
(***************************************************************************)
\* The single-bit event values a mask is decoded into.
EventBits == {1, 2, 4, 8, 16, 32, 64, 128}
EnabledEvents(mask) == {b \in EventBits : (mask \div b) % 2 = 1}

Returned(op) == pc = "idle" /\ last = op

\* C1: when register_monitoring_callbacks has returned, it did not raise if
\* the session holds its identifier, and unless it raised the events enabled
\* for TOOL_ID are exactly the four of _EVENTS, each with a callback bound.
C1_ExactlyFourEvents ==
    Returned("register_monitoring_callbacks") =>
        /\ registry[TOOL_ID] = "self" => ~raised
        /\ ~raised =>
              /\ EnabledEvents(events[TOOL_ID]) = EVENTS
              /\ \A e \in EVENTS : callbacks[TOOL_ID][e] # NoCallback

\* Registration returned on an acquired identifier, in a session that was
\* reset before.
C1_Witness ==
    /\ Returned("register_monitoring_callbacks")
    /\ registry[TOOL_ID] = "self"
    /\ events[TOOL_ID] = PY_START + PY_RETURN + PY_YIELD + CALL
    /\ resetDone

\* C2: whenever reset_monitoring has returned (from Idle before an identifier
\* was acquired, from Idle after a reset, from Active) it did not raise and no
\* callback of the four events is bound for TOOL_ID.
C2_ResetIdempotent ==
    Returned("reset_monitoring") =>
        /\ ~raised
        /\ \A e \in EVENTS : callbacks[TOOL_ID][e] = NoCallback

\* Two consecutive resets returned, before any identifier was acquired, on a
\* host that refuses to clear the reserved slots because they are not in use.
C2_Witness ==
    /\ Returned("reset_monitoring")
    /\ resets = 2
    /\ \A i \in ToolIds : registry[i] # "self"
    /\ strict
    /\ \E i \in ResetRange : ~InUse(i)

FreeAtOrAfter(id) == \E i \in ToolIds : i >= id /\ registry[i] = "free"

FirstFreeAcquired ==
    /\ TOOL_ID \in ToolIds
    /\ registry[TOOL_ID] = "self"
    /\ startId <= TOOL_ID
    /\ \A i \in startId..(TOOL_ID - 1) : registry[i] # "free"

\* C3: setup_tool_id, entered with a free identifier at or after TOOL_ID,
\* returns, and whenever it has returned TOOL_ID is the first identifier at or
\* after the one it started from that was free, now registered to the session.
C3_FirstFreeId ==
    /\ (pc = "setup_tool_id" /\ FreeAtOrAfter(TOOL_ID))
           ~> (Returned("setup_tool_id") /\ FirstFreeAcquired)
    /\ [](Returned("setup_tool_id") => FirstFreeAcquired)

\* setup_tool_id returned after stepping over two taken identifiers.
C3_Witness ==
    /\ Returned("setup_tool_id")
    /\ TOOL_ID = startId + 2
    /\ registry[TOOL_ID] = "self"

\* C10 as stated: reset_monitoring leaves the event set of the session's own
\* identifier unchanged.
C10_OwnEventsUntouched ==
    [][reset_monitoring => events'[TOOL_ID] = events[TOOL_ID]]_vars

\* C10 as amended: reset_monitoring changes the event set of no identifier
\* outside range(3, 5), and clears the session's own when it lies inside.
C10_ClearsOnlyReservedRange ==
    [][reset_monitoring =>
          /\ \A i \in ToolIds \ ResetRange : events'[i] = events[i]
          /\ (TOOL_ID \in ResetRange /\ registry[TOOL_ID] = "self")
                 => events'[TOOL_ID] = NO_EVENTS]_vars

\* The loops of reset_monitoring have run in a session whose own identifier
\* lies in the cleared range, right after a successful registration.
C10_Witness ==
    /\ pc = "reset_signal"
    /\ last = "register_monitoring_callbacks"
    /\ ~raised
    /\ registry[TOOL_ID] = "self"
    /\ TOOL_ID \in ResetRange
    /\ events[TOOL_ID] = NO_EVENTS

(***************************************************************************)
(* Properties of the sampling timer.                                       *)
(***************************************************************************)
\* The interpreter runs the handler setup_timer installed.
HandlerInvoked == DeliverSignal /\ sigHandler = "handle_clear_seen_funcs"

\* C4: once reset_monitoring has returned, and until setup_timer is entered
\* again, the timer is disarmed, SIGALRM is ignored, and no step invokes the
\* handler setup_timer installed.
C4_NoInvocationAfterReset ==
    /\ [](resetDone => itValue = 0 /\ sigHandler = "SIG_IGN")
    /\ [][resetDone => ~HandlerInvoked]_vars

\* reset_monitoring returned while an expiration that arrived before the
\* handler was replaced is still waiting to be delivered.
C4_Witness ==
    /\ resetDone
    /\ pc = "idle"
    /\ tripped

TimerLive == Returned("setup_timer")

\* C5 as stated: if from some point on setup_timer is the last operation
\* called, the handler is invoked again and again.
C5_InvokedForever == <>[]TimerLive => []<><<HandlerInvoked>>_vars

\* C5 as amended: the timer setup_timer arms never reloads, so it expires at
\* most once after each arming.
C5_OneShot ==
    /\ itInterval = 0
    /\ firedSinceArm <= 1

\* The one expiration of an arming was delivered to the handler, and the
\* timer is disarmed although no reset was called.
C5_Witness ==
    /\ TimerLive
    /\ firedSinceArm = 1
    /\ itValue = 0
    /\ ~tripped
    /\ sigHandler = "handle_clear_seen_funcs"

(***************************************************************************)
(* Properties of get_import_details.                                       *)
(***************************************************************************)
Resolved == obj # "none"

FrameScopes(frame) == {frame.f_globals, frame.f_locals}

\* Frame f binds name n, in its globals or its locals, to the object v.
BindsTo(frame, n, v) ==
    \E scope \in FrameScopes(frame) : n \in DOMAIN scope /\ scope[n] = v

\* The formal parameters of a frame's code: positional, then keyword-only.
FormalParameters(frame) ==
    {frame.co_varnames[i] :
        i \in 1..Min(frame.co_argcount + frame.co_kwonlyargcount,
                     Len(frame.co_varnames))}

C7_ObjectAliasesExact ==
    (Resolved /\ module_name(obj) # "builtins") =>
        /\ details.obj_aliases =
               {n \in Names \ {obj_name(obj)} :
                   \E f \in FrameIndexes :
                       /\ BindsTo(frames[f], n, obj)
                       /\ n \notin FormalParameters(frames[f])}
        /\ details.obj_name \notin details.obj_aliases
        /\ details.module_name \notin details.module_aliases

\* C8: every reported alias is bound to the target (or to its module) in some
\* frame of which it is not a formal parameter.
C8_ParametersNeverAliases ==
    Resolved =>
        /\ \A n \in details.obj_aliases :
               \E f \in FrameIndexes :
                   /\ BindsTo(frames[f], n, obj)
                   /\ n \notin FormalParameters(frames[f])
        /\ \A n \in details.module_aliases :
               \E f \in FrameIndexes :
                   /\ BindsTo(frames[f], n, SysModules(module_name(obj)))
                   /\ n \notin FormalParameters(frames[f])

(***************************************************************************)
(* Properties of generate_import_nodes.                                    *)
(***************************************************************************)
\* The statements of the four categories that pass validation, counted.
ValidStatements(d) ==
    (IF ImportFromValid(d.module_name, d.obj_name, <<>>) THEN 1 ELSE 0)
    + Cardinality({a \in d.obj_aliases :
                      ImportFromValid(d.module_name, d.obj_name, <<a>>)})
    + (IF ImportValid(d.module_name, <<>>) THEN 1 ELSE 0)
    + Cardinality({a \in d.module_aliases : ImportValid(d.module_name, <<a>>)})

AllStatements(d) ==
    2 + Cardinality(d.obj_aliases) + Cardinality(d.module_aliases)

\* C9: generate_import_nodes never raises; it returns one node, followed by
\* an EmptyLine, for every statement that passes validation, and logs one
\* warning for every statement that does not.
C9_NeverRaises ==
    genOutcome # "none" =>
        /\ genOutcome = "returned"
        /\ Len(import_nodes) = 2 * ValidStatements(genInput)
        /\ \A i \in 1..Len(import_nodes) :
               (import_nodes[i] = EmptyLine) <=> (i % 2 = 0)
        /\ Len(warnings) = AllStatements(genInput) - ValidStatements(genInput)

====
